---- MODULE Spec2Model ----
(***************************************************************************)
(* HPACKCodec (proxygen/lib/http/codec/compress/HPACKCodec.cpp): the       *)
(* adapter between the transport codec's header lists and the HPACK        *)
(* encoder/decoder pair.  Strings are sequences of ASCII codes.  The       *)
(* HPACKEncoder/HPACKDecoder engine and the stats recorder are             *)
(* collaborators: the engine's answers are chosen nondeterministically.    *)
(***************************************************************************)
EXTENDS Integers, Sequences, FiniteSets

\* ------------------------------------------------------------------ bounds
MaxHeaders == 2      \* longest header list handed to encode / produced by the engine
MaxBufLen  == 1      \* longest buffer chain the engine's encode produces
MaxLength  == 1      \* largest declared block length handed to decode

\* ------------------------------------------------------- program constants
\* The size counters are uint32_t.  Every length below is a handful of bytes, so
\* the sums stay far under 2^32 and are computed exactly as the code does.
PerHeaderOverhead == 2

\* ----------------------------------------------------------------- strings
sXTest == <<88, 45, 84, 101, 115, 116>>      \* "X-Test"
sxtest == <<120, 45, 116, 101, 115, 116>>    \* "x-test"
sAb    == <<65, 98>>                         \* "Ab"
s1     == <<49>>                             \* "1"
s2     == <<50>>                             \* "2"
sCd    == <<67, 100>>                        \* "Cd"

\* compress::Header as the caller supplies it (name/value read through pointers)
Header(n, v) == [name |-> n, value |-> v]

\* HPACKHeader(name, value): the adapter's own copy
HPACKHeader(n, v) == [name |-> n, value |-> v]

SeqsUpTo(S, n) == UNION { [1..k -> S] : k \in 0..n }

\* headers a caller hands to encode, and the lists made of them
CallerPool == { Header(sXTest, s1), Header(sxtest, s2), Header(sAb, sCd) }
CallerLists == SeqsUpTo(CallerPool, MaxHeaders)

\* headers the decoding engine produces for an arbitrary block
EnginePool == { HPACKHeader(sxtest, s1), HPACKHeader(sAb, sCd) }
EngineLists == SeqsUpTo(EnginePool, MaxHeaders)

\* the lists used where encode and decode calls are interleaved: the empty
\* list, a short one, and the longest list of one repeated header
Example == << Header(sXTest, s1), Header(sxtest, s2) >>
SomeCallerLists == { <<>>, Example, [i \in 1..MaxHeaders |-> Header(sAb, sCd)] }
SomeEngineLists == { <<>>, << HPACKHeader(sAb, sCd) >>,
                     [i \in 1..MaxHeaders |-> HPACKHeader(sxtest, s1)] }

\* ------------------------------------------------------------------ types
DOWNSTREAM == "DOWNSTREAM"
UPSTREAM   == "UPSTREAM"
TransportDirection == {DOWNSTREAM, UPSTREAM}

REQ  == "REQ"
RESP == "RESP"

NONE              == "NONE"
HEADERS_TOO_LARGE == "HEADERS_TOO_LARGE"
BAD_ENCODING      == "BAD_ENCODING"
\* HPACKDecoder::Error values other than NONE
DecoderErrors == {HEADERS_TOO_LARGE, "INVALID_INDEX", "INVALID_HUFFMAN_CODE"}

\* unique_ptr<IOBuf>: null, or a chain of len bytes that encodes block
NullBuf == [null |-> TRUE]
IOBuf(len, block) == [null |-> FALSE, len |-> len, block |-> block]

HTTPHeaderSize(c, u) == [compressed |-> c, uncompressed |-> u]

VARIABLES
  direction,       \* constructor argument
  encoderType,     \* message type encoder_ was built with
  decoderType,     \* message type decoder_ was built with
  stats,           \* stats_ # nullptr
  encodedSize,     \* encodedSize_
  decodedSize,     \* decodedSize_
  decodedHeaders,  \* decodedHeaders_ (scratch filled by the engine)
  outHeaders,      \* outHeaders_ (piece list the decode result refers to)
  decoderErr,      \* decoder_'s error state (hasError/getError)
  headers,         \* the caller's vector<Header> as it is after encode returned
  recorded,        \* calls the stats recorder received during the last call
  result,          \* value returned by the last call
  call             \* the last call: its arguments and what the engine answered;
                   \* leftover: a successful decode found entries of an earlier
                   \* call in the scratch lists when it started

vars == <<direction, encoderType, decoderType, stats, encodedSize, decodedSize,
          decodedHeaders, outHeaders, decoderErr, headers, recorded,
          result, call>>

\* ------------------------------------------------------------ constructor
\* the else branch assigning the request role to the decoder as well
DecoderTypeForNoElse(d) == REQ

\* HPACKCodec::HPACKCodec, lines 32-39
DecoderTypeFor(d) == IF d = DOWNSTREAM THEN REQ ELSE RESP

EncoderTypeFor(d) == IF d = DOWNSTREAM THEN RESP ELSE REQ

Init ==
  /\ direction \in TransportDirection
  /\ encoderType = EncoderTypeFor(direction)
  /\ decoderType = DecoderTypeFor(direction)
  /\ stats = FALSE
  /\ encodedSize = HTTPHeaderSize(0, 0)
  /\ decodedSize = HTTPHeaderSize(0, 0)
  /\ decodedHeaders = <<>>
  /\ outHeaders = <<>>
  /\ decoderErr = NONE
  /\ headers = <<>>
  /\ recorded = <<>>
  /\ result = [op |-> "none"]
  /\ call = [op |-> "none"]

\* HeaderCodec::setStats
SetStats(s) ==
  /\ stats # s
  /\ stats' = s
  /\ UNCHANGED <<direction, encoderType, decoderType, encodedSize, decodedSize,
                 decodedHeaders, outHeaders, decoderErr, headers, recorded,
                 result, call>>

\* ----------------------------------------------------------------- encode
\* folly::toLowerAscii on one character
ToLowerAsciiChar(c) == IF c \in 65..90 THEN c + 32 ELSE c

\* folly::toLowerAscii(mutableName, size): in place over the whole buffer
ToLowerAscii(s) == [i \in 1..Len(s) |-> ToLowerAsciiChar(s[i])]

\* the copy without the toLowerAscii call
NormalizedNotLowered(h) == HPACKHeader(h.name, h.value)

\* lines 49-53: the HPACKHeader built from one caller header, name lowercased
Normalized(h) ==
  LET header == HPACKHeader(h.name, h.value)
  IN  [header EXCEPT !.name = ToLowerAscii(@)]

\* lines 48-56, the list: converted.push_back(header) for each h in order
Convert(hs) == [i \in 1..Len(hs) |-> Normalized(hs[i])]

\* lines 47-56, the counter: uncompressed += name.size() + value.size() + 2,
\* after the first n headers
RECURSIVE EncodeUncompressed(_, _)
EncodeUncompressed(converted, n) ==
  IF n = 0 THEN 0
  ELSE LET header == converted[n]
       IN  EncodeUncompressed(converted, n - 1)
             + Len(header.name) + Len(header.value) + PerHeaderOverhead

\* lines 52-53: header.name.data() is written through a const_cast.  The
\* write is undefined behaviour; where the HPACKHeader's name shares its
\* character buffer with the caller's string (reference-counted std::string)
\* the caller's name is lowercased too, otherwise it is left alone.
CallerAfter(hs, shared) ==
  [i \in 1..Len(hs) |->
     IF shared THEN [hs[i] EXCEPT !.name = ToLowerAscii(@)] ELSE hs[i]]

\* without the reset on line 58: a missing buffer keeps the old compressed size
EncodedSizeAfterNoReset(prev, buf, uncompressed) ==
  HTTPHeaderSize(IF buf.null THEN prev.compressed ELSE buf.len, uncompressed)

\* lines 58-62: encodedSize_ after the engine returned buf
EncodedSizeAfter(prev, buf, uncompressed) ==
  HTTPHeaderSize(IF buf.null THEN 0 ELSE buf.len, uncompressed)

\* lines 63-65
EncodeEvents(attached, size) ==
  IF attached THEN <<[event |-> "recordEncode", type |-> "HPACK", size |-> size]>>
  ELSE <<>>

\* HPACKEncoder::encode(converted, headroom): no buffer (-1), or one of some length
EncoderOutputs == -1 .. MaxBufLen

EngineEncode(converted, out) ==
  IF out < 0 THEN NullBuf ELSE IOBuf(out, converted)

Encode(hs, shared, out) ==
  /\ call' = [op |-> "encode", input |-> hs, converted |-> Convert(hs),
              stats |-> stats]
  /\ result' = [op |-> "encode", buf |-> EngineEncode(call'.converted, out)]
  /\ encodedSize' = EncodedSizeAfter(encodedSize, result'.buf,
                       EncodeUncompressed(call'.converted, Len(call'.converted)))
  /\ recorded' = EncodeEvents(stats, encodedSize')
  /\ headers' = CallerAfter(hs, shared)
  /\ UNCHANGED <<direction, encoderType, decoderType, stats, decodedSize,
                 decodedHeaders, outHeaders, decoderErr>>

\* ----------------------------------------------------------------- decode
\* without the two clear() calls
ClearOmitted(list) == list

\* lines 71-72: outHeaders_.clear(), decodedHeaders_.clear()
Clear(list) == <<>>

\* HPACKDecoder::decode(cursor, length, decodedHeaders_): the engine appends
\* the headers it decoded to the list it is given
EngineDecode(list, produced) == list \o produced

\* without the HEADERS_TOO_LARGE test
ClassifyErrorOneBucket(err) == BAD_ENCODING

\* lines 79-82
ClassifyError(err) ==
  IF err = HEADERS_TOO_LARGE THEN HEADERS_TOO_LARGE ELSE BAD_ENCODING

\* HeaderPiece(data, len, owner, multiValued)
HeaderPiece(str, len, owner, multiValued) ==
  [str |-> str, len |-> len, owner |-> owner, multiValued |-> multiValued]

\* the pieces built with the multi-valued flag left false
PiecesSingleValued(h) ==
  << [str |-> h.name, len |-> Len(h.name), owner |-> FALSE, multiValued |-> FALSE],
     [str |-> h.value, len |-> Len(h.value), owner |-> FALSE, multiValued |-> FALSE] >>

\* lines 91-96: the two pieces emplaced for one decoded header
Pieces(h) ==
  LET multiValued == TRUE
  IN  << HeaderPiece(h.name, Len(h.name), FALSE, multiValued),
         HeaderPiece(h.value, Len(h.value), FALSE, multiValued) >>

\* lines 86-98, the list: outHeaders_ after the loop ran from index i
RECURSIVE ConvertToPieces(_, _, _)
ConvertToPieces(out, decoded, i) ==
  IF i > Len(decoded) THEN out
  ELSE ConvertToPieces(out \o Pieces(decoded[i]), decoded, i + 1)

\* the counter without the per-header overhead
RECURSIVE DecodeUncompressedNoOverhead(_, _)
DecodeUncompressedNoOverhead(decoded, n) ==
  IF n = 0 THEN 0
  ELSE DecodeUncompressedNoOverhead(decoded, n - 1)
         + Len(decoded[n].name) + Len(decoded[n].value)

\* lines 85-98, the counter: uncompressed += name.size() + value.size() + 2,
\* after the first n headers
RECURSIVE DecodeUncompressed(_, _)
DecodeUncompressed(decoded, n) ==
  IF n = 0 THEN 0
  ELSE LET h == decoded[n]
       IN  DecodeUncompressed(decoded, n - 1)
             + Len(h.name) + Len(h.value) + PerHeaderOverhead

\* the size recorded before the error check
DecodedSizeAfterAlways(prev, err, consumed, uncompressed) ==
  HTTPHeaderSize(consumed, uncompressed)

\* lines 74-83 and 99-100: decodedSize_ when decode returns
DecodedSizeAfter(prev, err, consumed, uncompressed) ==
  IF err # NONE THEN prev ELSE HTTPHeaderSize(consumed, uncompressed)

\* without the recordDecodeError call
DecodeEventsNoError(attached, err, size) ==
  IF attached /\ err = NONE
  THEN <<[event |-> "recordDecode", type |-> "HPACK", size |-> size]>>
  ELSE <<>>

\* lines 76-78 and 101-103
DecodeEvents(attached, err, size) ==
  IF ~attached THEN <<>>
  ELSE IF err # NONE THEN <<[event |-> "recordDecodeError", type |-> "HPACK"]>>
  ELSE <<[event |-> "recordDecode", type |-> "HPACK", size |-> size]>>

\* lines 79-82 and 104: the Result returned; headers is a reference to outHeaders_
DecodeResult(err, consumed) ==
  IF err # NONE THEN [op |-> "decode", ok |-> FALSE, error |-> ClassifyError(err)]
  ELSE [op |-> "decode", ok |-> TRUE, headers |-> "outHeaders_",
        bytesConsumed |-> consumed]

\* what the engine may answer to decode(cursor, length, list).  The cursor and
\* the declared length (at most MaxLength) go to the engine unread; it reports
\* how many of those bytes it consumed.
EngineAnswers(lists) ==
  [produced : lists, consumed : 0..MaxLength, error : {NONE} \cup DecoderErrors]

Decode(answer, sent) ==
  /\ decodedHeaders' = EngineDecode(Clear(decodedHeaders), answer.produced)
  /\ decoderErr' = answer.error
  /\ outHeaders' = IF decoderErr' # NONE THEN Clear(outHeaders)
                   ELSE ConvertToPieces(Clear(outHeaders), decodedHeaders', 1)
  /\ decodedSize' = DecodedSizeAfter(decodedSize, decoderErr', answer.consumed,
                       DecodeUncompressed(decodedHeaders', Len(decodedHeaders')))
  /\ recorded' = DecodeEvents(stats, decoderErr', decodedSize')
  /\ result' = DecodeResult(decoderErr', answer.consumed)
  /\ call' = [op |-> "decode", produced |-> answer.produced,
              consumed |-> answer.consumed, stats |-> stats, sent |-> sent,
              leftover |-> /\ answer.error = NONE
                           /\ (outHeaders # <<>> \/ decodedHeaders # <<>>)]
  /\ UNCHANGED <<direction, encoderType, decoderType, stats, encodedSize,
                 headers>>

\* ------------------------------------------------------------- operations
EncodeAny ==
  \E hs \in CallerLists, shared \in BOOLEAN, out \in EncoderOutputs :
    Encode(hs, shared, out)

DecodeAny ==
  \E answer \in EngineAnswers(EngineLists) : Decode(answer, <<>>)

EncodeSome ==
  \E hs \in SomeCallerLists, shared \in BOOLEAN, out \in EncoderOutputs :
    Encode(hs, shared, out)

DecodeSome ==
  \E answer \in EngineAnswers(SomeEngineLists) : Decode(answer, <<>>)

\* decode of the block the last encode returned, by an engine compatible with
\* the one that produced it: it yields the headers that engine was given
DecodeEncoded ==
  /\ result.op = "encode"
  /\ ~result.buf.null
  /\ Decode([produced |-> result.buf.block, consumed |-> result.buf.len,
             error |-> NONE],
            <<call.input>>)

AttachStats == SetStats(TRUE)

DetachStats == SetStats(FALSE)

\* encode calls only
NextEncode == AttachStats \/ DetachStats \/ EncodeAny

SpecEncode == Init /\ [][NextEncode]_vars

\* decode calls only
NextDecode == AttachStats \/ DetachStats \/ DecodeAny

SpecDecode == Init /\ [][NextDecode]_vars

\* encode and decode calls interleaved
Next == EncodeSome \/ DecodeSome \/ DecodeEncoded

Spec == Init /\ [][Next]_vars

\* ================================================================ properties
\* ASCII lowercasing, character by character
IsLowerOf(l, t) ==
  /\ Len(l) = Len(t)
  /\ \A i \in 1..Len(t) :
       l[i] = (IF t[i] >= 65 /\ t[i] <= 90 THEN t[i] + 32 ELSE t[i])

\* sum over the headers of name length + value length + 2
RECURSIVE SumSizes(_)
SumSizes(hs) ==
  IF Len(hs) = 0 THEN 0
  ELSE Len(hs[1].name) + Len(hs[1].value) + 2 + SumSizes(Tail(hs))

\* the texts of a piece list, in order
PieceTexts(pieces) == [k \in 1..Len(pieces) |-> pieces[k].str]

LastEncode == call.op = "encode"
LastDecode == call.op = "decode"
LastDecodeOk == LastDecode /\ result.ok
LastDecodeFailed == LastDecode /\ ~result.ok

\* C1: DOWNSTREAM binds decoder=request and encoder=response, UPSTREAM binds
\* decoder=response and encoder=request, and after any sequence of encode and
\* decode calls the pair is still the one chosen at construction, so one of
\* the two configurations holds in every reachable state.
C1_RolesFixedByDirection ==
  /\ direction = DOWNSTREAM => decoderType = REQ /\ encoderType = RESP
  /\ direction = UPSTREAM => decoderType = RESP /\ encoderType = REQ
  /\ \/ encoderType = RESP /\ decoderType = REQ
     \/ encoderType = REQ /\ decoderType = RESP

\* an UPSTREAM adapter after an encode and then a failing decode
C1_Witness ==
  /\ direction = UPSTREAM
  /\ LastDecodeFailed
  /\ encodedSize.uncompressed > 0
  /\ decoderType = RESP

\* C2: when the engine reports an error after a decode call, the result is
\* HEADERS_TOO_LARGE for the engine's headers-too-large error and BAD_ENCODING
\* for every other cause, and it carries neither a piece list nor a
\* bytesConsumed value, whatever the engine put in the scratch list or
\* reported as consumed.
C2_ErrorClassification ==
  (LastDecode /\ decoderErr # NONE) =>
    /\ ~result.ok
    /\ decoderErr = HEADERS_TOO_LARGE => result.error = HEADERS_TOO_LARGE
    /\ decoderErr # HEADERS_TOO_LARGE => result.error = BAD_ENCODING
    /\ DOMAIN result = {"op", "ok", "error"}

\* a non-size error after the engine produced two headers and consumed a byte
C2_Witness ==
  /\ LastDecode
  /\ decoderErr = "INVALID_HUFFMAN_CODE"
  /\ result.error = BAD_ENCODING
  /\ Len(decodedHeaders) = 2
  /\ call.consumed > 0

\* C3: a successful decode in which the engine produced N headers returns 2N
\* pieces, piece 2i-1 the name and piece 2i the value of header i in decode
\* order, every piece multi-valued; identical names are kept.
C3_PieceListShape ==
  LastDecodeOk =>
    /\ result.headers = "outHeaders_"
    /\ Len(outHeaders) = 2 * Len(call.produced)
    /\ \A i \in 1..Len(call.produced) :
         /\ outHeaders[2 * i - 1].str = call.produced[i].name
         /\ outHeaders[2 * i - 1].len = Len(call.produced[i].name)
         /\ outHeaders[2 * i].str = call.produced[i].value
         /\ outHeaders[2 * i].len = Len(call.produced[i].value)
    /\ \A k \in 1..Len(outHeaders) : outHeaders[k].multiValued = TRUE

\* two headers with the same name decoded into four pieces
C3_Witness ==
  /\ LastDecodeOk
  /\ Len(call.produced) = 2
  /\ call.produced[1].name = call.produced[2].name
  /\ Len(outHeaders) = 4

\* C4: after any sequence of decode calls, failing ones included, the piece
\* list of a successful decode holds the headers the engine produced for that
\* call and nothing of an earlier call; so does the scratch list.
C4_NoLeakAcrossCalls ==
  LastDecodeOk =>
    /\ decodedHeaders = call.produced
    /\ Len(outHeaders) = 2 * Len(call.produced)
    /\ \A k \in 1..Len(outHeaders) :
         outHeaders[k].str = (IF k % 2 = 1 THEN call.produced[(k + 1) \div 2].name
                              ELSE call.produced[k \div 2].value)

\* a one-header decode that started with an earlier call's entries in the lists
C4_Witness ==
  /\ LastDecodeOk
  /\ call.leftover
  /\ Len(call.produced) = 1
  /\ Len(outHeaders) = 2

\* C5: the uncompressed size recorded by encode is the sum over the input
\* headers of name length + value length + 2, the one recorded by a successful
\* decode is the same sum over the decoded headers, whatever the compressed
\* size is; for zero headers it is 0.
C5_UncompressedIsSum ==
  /\ LastEncode => encodedSize.uncompressed = SumSizes(call.input)
  /\ LastDecodeOk => decodedSize.uncompressed = SumSizes(call.produced)
  /\ (LastEncode /\ call.input = <<>>) => encodedSize.uncompressed = 0
  /\ (LastDecodeOk /\ call.produced = <<>>) => decodedSize.uncompressed = 0

\* a decode of headers of 18 bytes that consumed one byte, after an encode of
\* headers of 18 bytes for which the engine produced no buffer
C5_Witness ==
  /\ LastDecodeOk
  /\ decodedSize = HTTPHeaderSize(1, 18)
  /\ encodedSize = HTTPHeaderSize(0, 18)

\* C6: the sequence encode hands to the engine has the caller's length and
\* order, each name the ASCII-lowercased input name and each value the input
\* value unchanged; so [("X-Test","1"),("x-test","2")] encoded and decoded by
\* a compatible engine gives the pieces "x-test","1","x-test","2".
C6_NormalizedInOrder ==
  /\ LastEncode =>
       /\ Len(call.converted) = Len(call.input)
       /\ \A i \in 1..Len(call.input) :
            /\ IsLowerOf(call.converted[i].name, call.input[i].name)
            /\ call.converted[i].value = call.input[i].value
       /\ ~result.buf.null => result.buf.block = call.converted
  /\ (LastDecode /\ call.sent = <<Example>>) =>
       /\ result.ok
       /\ PieceTexts(outHeaders) = <<sxtest, s1, sxtest, s2>>

\* the example list encoded, then decoded into four pieces
C6_Witness ==
  /\ LastDecodeOk
  /\ call.sent = << << Header(sXTest, s1), Header(sxtest, s2) >> >>
  /\ Len(outHeaders) = 4
  /\ outHeaders[1].str = sxtest

\* C7: every encode overwrites the encoded-size tuple with compressed = the
\* length of the buffer the engine produced, or 0 without a buffer, and
\* uncompressed = this call's sum; it reports that tuple to the recorder once
\* if one is attached and not at all otherwise; a missing buffer is returned
\* as an empty result.
C7_EncodedSizeOverwritten ==
  LastEncode =>
    /\ encodedSize.compressed = (IF result.buf.null THEN 0 ELSE result.buf.len)
    /\ encodedSize.uncompressed = SumSizes(call.converted)
    /\ call.stats =>
         recorded = << [event |-> "recordEncode", type |-> "HPACK",
                        size |-> encodedSize] >>
    /\ ~call.stats => recorded = <<>>
    /\ DOMAIN result = {"op", "buf"}

\* no buffer for a non-empty list, with a recorder attached
C7_Witness ==
  /\ LastEncode
  /\ result.buf.null
  /\ call.stats
  /\ Len(call.input) = 2
  /\ encodedSize.compressed = 0
  /\ Len(recorded) = 1

\* C8: after encode returns, every name and value in the caller's list is
\* what it was before the call.
C8_CallerListUntouched ==
  LastEncode => headers = call.input

\* C9: decode returns an error exactly when the engine reports an error after
\* the engine call of that adapter call; with a recorder attached each decode
\* emits one event, a decode-error event for an error and a decode-size event
\* with {compressed = bytes consumed, uncompressed} for a success, and the
\* success result's bytesConsumed is the engine's count; without a recorder no
\* event is emitted.
C9_DecodeOutcomeAndEvents ==
  LastDecode =>
    /\ result.ok <=> decoderErr = NONE
    /\ result.ok => result.bytesConsumed = call.consumed
    /\ ~call.stats => recorded = <<>>
    /\ (call.stats /\ ~result.ok) =>
         recorded = << [event |-> "recordDecodeError", type |-> "HPACK"] >>
    /\ (call.stats /\ result.ok) =>
         recorded = << [event |-> "recordDecode", type |-> "HPACK",
                        size |-> [compressed |-> call.consumed,
                                  uncompressed |-> SumSizes(call.produced)]] >>

\* a failing decode with a recorder attached: one decode-error event
C9_Witness ==
  /\ LastDecodeFailed
  /\ call.stats
  /\ Len(recorded) = 1
  /\ recorded[1].event = "recordDecodeError"

\* C10: a decode that ends in an error leaves the decoded-size tuple and the
\* encoded-size tuple as they were before the call and leaves the adapter's
\* piece list empty.
C10_FailedDecodeFrame ==
  [][ (call'.op = "decode" /\ decoderErr' # NONE) =>
        /\ decodedSize' = decodedSize
        /\ encodedSize' = encodedSize
        /\ outHeaders' = <<>> ]_vars

\* a failing decode after a successful decode and an encode: both tuples still
\* hold the earlier values and the piece list is empty
C10_Witness ==
  /\ LastDecodeFailed
  /\ decodedSize = HTTPHeaderSize(1, 6)
  /\ encodedSize.uncompressed = 18
  /\ Len(decodedHeaders) > 0
  /\ outHeaders = <<>>
====
